---- MODULE Spec2Model ----
(***************************************************************************)
(* A model of the pysweeper Board (src/pysweeper/pysweeper.py): a grid of  *)
(* tiles with randomly placed mines, the flood-fill expose operation, the  *)
(* flag toggle with its budget, and the win predicate; and of the click    *)
(* handlers of PySweeperUI (src/pysweeper/ui.py) that drive the board.     *)
(***************************************************************************)
EXTENDS Integers, FiniteSets, Sequences, TLC

\* Bounds of the model: boards of at most MaxTiles tiles, at most MaxMines
\* requested mines.
MaxTiles == 4
MaxMines == 2

VARIABLES
    nrows,        \* Board.nrows
    ncolumns,     \* Board.ncolumns
    nmines,       \* Board.nmines, the requested number of mines
    nflagged,     \* Board.nflagged
    grid,         \* Board.grid: coordinate -> Tile
    op,           \* the last call made on the board
    ret,          \* the value the last call returned
    pre_grid,     \* Board.grid as it was when the last call started
    pre_nflagged, \* Board.nflagged as it was when the last call started
    raised,       \* the exception the last call raised, "None" if it returned
    connected,    \* PySweeperUI.widgets: the tile widgets whose click signals are connected
    info_header   \* PySweeperUI.info_header: the text it shows

\* the state of the board and of the last call on it
board_vars == <<nrows, ncolumns, nmines, nflagged, grid, op, ret, pre_grid, pre_nflagged, raised>>

\* the state of the user interface
ui_vars == <<connected, info_header>>

vars == <<nrows, ncolumns, nmines, nflagged, grid, op, ret, pre_grid, pre_nflagged,
          raised, connected, info_header>>

\* dataclass Tile with its defaults
Tile == [mine |-> FALSE, exposed |-> FALSE, flagged |-> FALSE, adjacent_mines |-> 0]

\* the keys of Board.grid for a board of r rows and c columns
Coordinates(r, c) == (0 .. r - 1) \X (0 .. c - 1)

\* the keys of the current board
Coords == Coordinates(nrows, ncolumns)

\* Board.ntiles
ntiles == nrows * ncolumns

\* Board.available_flags
available_flags == nmines - nflagged

\* Board.total_exposed
total_exposed == Cardinality({c \in Coords : grid[c].exposed})

\* a sum that leaves the flagged mines out (used to vary exposed_or_correctly_flagged)
exposed_only == Cardinality({c \in Coords : grid[c].exposed})

\* the sum Board.win computes
exposed_or_correctly_flagged ==
    total_exposed + Cardinality({c \in Coords : grid[c].flagged /\ grid[c].mine})

\* the assertion inside Board.win
win_assertion == exposed_or_correctly_flagged <= ntiles

\* the value Board.win returns
win == ntiles = exposed_or_correctly_flagged

\* a 4-neighbour adjacency (used to vary Adjacent)
AdjacentOrthogonal(i, j) ==
    {<<i + x, j + y>> : x \in {1, -1, 0}, y \in {1, -1, 0}}
        \cap {c \in Coords : (c[1] = i) # (c[2] = j)}

\* Board.adjacent
Adjacent(i, j) ==
    {c \in {<<i + x, j + y>> : x \in {1, -1, 0}, y \in {1, -1, 0}} :
        /\ c # <<i, j>>
        /\ 0 <= c[1] /\ c[1] < nrows
        /\ 0 <= c[2] /\ c[2] < ncolumns}

\* the order in which a set of coordinates is appended to the deque
RECURSIVE SetToSeq(_)
SetToSeq(S) ==
    IF S = {} THEN <<>>
    ELSE LET c == CHOOSE a \in S : \A b \in S :
                      a[1] < b[1] \/ (a[1] = b[1] /\ a[2] <= b[2])
         IN <<c>> \o SetToSeq(S \ {c})

\* the result of a lookup that finds no key
NoKey == <<>>

\* a lookup that counts negative indices from the end (used to vary Lookup)
LookupFromEnd(i, j) ==
    IF i \in -nrows .. nrows - 1 /\ j \in -ncolumns .. ncolumns - 1
    THEN <<i % nrows, j % ncolumns>>
    ELSE NoKey

\* grid[i, j]: the key the dictionary lookup finds, NoKey when it raises KeyError
Lookup(i, j) == IF <<i, j>> \in Coords THEN <<i, j>> ELSE NoKey

\* a boundary test that lets tiles next to one mine spread the fill (used to vary IsBoundary)
IsBoundaryFromTwo(adjacent_mines) == adjacent_mines > 1

\* "if adjacent_mines:" of the flood fill
IsBoundary(adjacent_mines) == adjacent_mines # 0

\* a mine branch that exposes every mine of the board (used to vary ExposeMine)
ExposeMineAll(g, coord) ==
    [c \in DOMAIN g |-> IF g[c].mine THEN [g[c] EXCEPT !.exposed = TRUE] ELSE g[c]]

\* a mine branch that also takes the flag off the tile (used to vary ExposeMine)
ExposeMineUnflag(g, coord) ==
    [g EXCEPT ![coord].exposed = TRUE, ![coord].flagged = FALSE]

\* the early return of Board.expose on a mine
ExposeMine(g, coord) == [g EXCEPT ![coord].exposed = TRUE]

\* tile_exposed of the flood fill
TileExposed(tile) == ~tile.mine /\ ~tile.flagged

\* the while loop of Board.expose
RECURSIVE ExposeLoop(_, _, _, _)
ExposeLoop(g, coordinates, seen, exposed) ==
    IF coordinates = <<>> THEN [grid |-> g, exposed |-> exposed, seen |-> seen]
    ELSE LET coord == Head(coordinates)
             rest == Tail(coordinates)
         IN IF coord \in seen THEN ExposeLoop(g, rest, seen, exposed)
            ELSE LET seen2 == seen \cup {coord}
                     adjacent == Adjacent(coord[1], coord[2])
                     adjacent_mines == Cardinality({a \in adjacent : g[a].mine})
                     tile_exposed == TileExposed(g[coord])
                     g1 == [g EXCEPT ![coord].exposed = tile_exposed]
                     exposed2 == IF tile_exposed THEN exposed \cup {coord} ELSE exposed
                     g2 == IF IsBoundary(adjacent_mines)
                           THEN [g1 EXCEPT ![coord].adjacent_mines = adjacent_mines]
                           ELSE g1
                     coordinates2 ==
                         IF IsBoundary(adjacent_mines) THEN rest
                         ELSE rest \o SetToSeq({a \in adjacent : a \notin seen2})
                 IN ExposeLoop(g2, coordinates2, seen2, exposed2)

\* the flag guard that ignores the budget (used to vary CanFlag)
CanFlagNoBudget(tile, nf, nm) == ~tile.exposed

\* the flag guard that ignores exposure (used to vary CanFlag)
CanFlagExposed(tile, nf, nm) == nf + 1 <= nm

\* the guard of Board.flag for setting a flag
CanFlag(tile, nf, nm) == nf + 1 <= nm /\ ~tile.exposed

\* the text of info_header while the game runs: "Flags: n"
FlagsText(n) == [text |-> "Flags", n |-> n]

\* PySweeperUI.__init__ around Board.__init__(rows, columns, mines):
\* random.choices draws the mine tiles with replacement
Board(rows, columns, mines) ==
    /\ nrows = rows
    /\ ncolumns = columns
    /\ nmines = mines
    /\ \E choices \in [1 .. mines -> Coordinates(rows, columns)] :
          grid = [c \in Coordinates(rows, columns) |->
                     [Tile EXCEPT !.mine = \E k \in 1 .. mines : choices[k] = c]]
    /\ nflagged = 0
    /\ op = [name |-> "init", i |-> 0, j |-> 0]
    /\ ret = {}
    /\ pre_grid = grid
    /\ pre_nflagged = 0
    /\ raised = "None"
    /\ connected = Coordinates(rows, columns)
    /\ info_header = FlagsText(mines)

\* the boards the entry point constructs: it rejects mines > rows * columns
Init ==
    \E rows \in 1 .. MaxTiles, columns \in 1 .. MaxTiles, mines \in 0 .. MaxMines :
        /\ rows * columns <= MaxTiles
        /\ mines <= rows * columns
        /\ Board(rows, columns, mines)

\* the boards Board.__init__ constructs when called with any mine count
InitAnyMines ==
    \E rows \in 1 .. MaxTiles, columns \in 1 .. MaxTiles, mines \in 0 .. MaxMines :
        /\ rows * columns <= MaxTiles
        /\ Board(rows, columns, mines)

\* a call that fails on its lookup with KeyError
RaiseKeyError(name, i, j) ==
    /\ op' = [name |-> name, i |-> i, j |-> j]
    /\ raised' = "KeyError"
    /\ pre_grid' = grid
    /\ pre_nflagged' = nflagged
    /\ UNCHANGED <<nrows, ncolumns, nmines, nflagged, grid, ret>>

\* Board.expose(i, j)
Expose(i, j) ==
    LET coord == Lookup(i, j)
    IN IF coord = NoKey THEN RaiseKeyError("expose", i, j)
       ELSE /\ IF grid[coord].mine
               THEN /\ grid' = ExposeMine(grid, coord)
                    /\ ret' = {coord}
               ELSE LET r == ExposeLoop(grid, <<coord>>, {}, {})
                    IN /\ grid' = r.grid
                       /\ ret' = r.exposed
            /\ op' = [name |-> "expose", i |-> i, j |-> j]
            /\ raised' = "None"
            /\ pre_grid' = grid
            /\ pre_nflagged' = nflagged
            /\ UNCHANGED <<nrows, ncolumns, nmines, nflagged>>

\* the body of Board.flag on the tile at coord: the grid, the counter and
\* the value returned
FlagResult(g, nf, nm, coord) ==
    LET tile == g[coord]
        was_flagged == tile.flagged
        flagged == ~was_flagged
        applied == IF was_flagged THEN nf - 1 >= 0 ELSE CanFlag(tile, nf, nm)
    IN [grid |-> IF applied THEN [g EXCEPT ![coord].flagged = flagged] ELSE g,
        nflagged |-> IF ~applied THEN nf
                     ELSE IF was_flagged THEN nf - 1 ELSE nf + 1,
        flagged |-> flagged]

\* Board.flag(i, j)
Flag(i, j) ==
    LET coord == Lookup(i, j)
    IN IF coord = NoKey THEN RaiseKeyError("flag", i, j)
       ELSE LET r == FlagResult(grid, nflagged, nmines, coord)
            IN /\ grid' = r.grid
               /\ nflagged' = r.nflagged
               /\ ret' = r.flagged
               /\ op' = [name |-> "flag", i |-> i, j |-> j]
               /\ raised' = "None"
               /\ pre_grid' = grid
               /\ pre_nflagged' = nflagged
               /\ UNCHANGED <<nrows, ncolumns, nmines>>

\* calls on the coordinates of the board
Next ==
    \E i \in 0 .. nrows - 1, j \in 0 .. ncolumns - 1 :
        \/ Expose(i, j) /\ UNCHANGED ui_vars
        \/ Flag(i, j) /\ UNCHANGED ui_vars

Spec == Init /\ [][Next]_vars

\* the coordinates one step off each side of the board
Outside == {<<-1, 0>>, <<nrows, 0>>, <<0, -1>>, <<0, ncolumns>>}

\* calls on the coordinates of the board and on those one step outside it
NextAnyCoordinate ==
    \E c \in Coords \cup Outside :
        \/ Expose(c[1], c[2]) /\ UNCHANGED ui_vars
        \/ Flag(c[1], c[2]) /\ UNCHANGED ui_vars

\* the boards of fewer than MaxTiles tiles among those of Init
InitSmallBoard == Init /\ nrows * ncolumns < MaxTiles

SpecAnyCoordinate == InitSmallBoard /\ [][NextAnyCoordinate]_vars

\* calls on boards constructed with any mine count
SpecAnyMines == InitAnyMines /\ [][Next]_vars

\* a caller's flag(i, j) on a mine that is not flagged yet
FlagMine(i, j) ==
    /\ <<i, j>> \in Coords
    /\ grid[<<i, j>>].mine
    /\ ~grid[<<i, j>>].flagged
    /\ Flag(i, j)
    /\ UNCHANGED ui_vars

\* a caller's expose(i, j) on a tile that holds no mine
ExposeSafe(i, j) ==
    /\ <<i, j>> \in Coords
    /\ ~grid[<<i, j>>].mine
    /\ Expose(i, j)
    /\ UNCHANGED ui_vars

\* the calls of a game that flags the mines and exposes the other tiles
NextFlagMinesExposeSafe ==
    \E i \in 0 .. nrows - 1, j \in 0 .. ncolumns - 1 :
        \/ FlagMine(i, j)
        \/ ExposeSafe(i, j)

SpecFlagMinesExposeSafe == Init /\ [][NextFlagMinesExposeSafe]_vars

\* the coordinate the last call was made on
Target == <<op.i, op.j>>

TypeOK ==
    /\ nrows \in 1 .. MaxTiles /\ ncolumns \in 1 .. MaxTiles
    /\ nmines \in 0 .. MaxMines
    /\ nflagged \in Int
    /\ DOMAIN grid = Coords
    /\ op.name \in {"init", "expose", "flag"}

\* TileWidget.mouse_event: a press on a tile reaches its handler when the
\* tile is selectable (not exposed) and the widget's signals are connected
Clickable(coord) ==
    /\ coord \in Coords
    /\ ~grid[coord].exposed
    /\ coord \in connected

\* PySweeperUI.on_left_click, reached by a press of button 1 on tile (i, j)
OnLeftClick(i, j) ==
    /\ Clickable(<<i, j>>)
    /\ IF grid[<<i, j>>].mine /\ grid[<<i, j>>].exposed
       THEN \* self.disable(), then Board has no expose_all
            /\ connected' = {}
            /\ raised' = "AttributeError"
            /\ UNCHANGED <<nrows, ncolumns, nmines, nflagged, grid, op, ret,
                           pre_grid, pre_nflagged, info_header>>
       ELSE IF ~grid[<<i, j>>].flagged
            THEN Expose(i, j) /\ UNCHANGED ui_vars
            ELSE UNCHANGED vars

\* PySweeperUI.on_right_click, reached by a press of button 3 on tile (i, j)
OnRightClick(i, j) ==
    /\ Clickable(<<i, j>>)
    /\ LET coord == <<i, j>>
           r == FlagResult(grid, nflagged, nmines, coord)
           flagged == r.flagged
           \* widget.flagged = flagged writes the tile of the board
           g == IF flagged
                THEN IF nmines - r.nflagged # 0
                     THEN [r.grid EXCEPT ![coord].flagged = flagged]
                     ELSE r.grid
                ELSE [r.grid EXCEPT ![coord].flagged = flagged]
       IN /\ grid' = g
          /\ nflagged' = r.nflagged
          /\ ret' = flagged
    /\ op' = [name |-> "flag", i |-> i, j |-> j]
    /\ pre_grid' = grid
    /\ pre_nflagged' = nflagged
    /\ UNCHANGED <<nrows, ncolumns, nmines>>
    /\ IF ~win_assertion'
       THEN /\ raised' = "AssertionError"
            /\ info_header' = FlagsText(available_flags')
            /\ UNCHANGED connected
       ELSE /\ raised' = "None"
            /\ IF win'
               THEN /\ connected' = {}
                    /\ info_header' = [text |-> "You win!", n |-> available_flags']
               ELSE /\ info_header' = FlagsText(available_flags')
                    /\ UNCHANGED connected

\* the mouse presses on the tiles of the board
NextUI ==
    \E i \in 0 .. nrows - 1, j \in 0 .. ncolumns - 1 :
        \/ OnLeftClick(i, j)
        \/ OnRightClick(i, j)

SpecUI == Init /\ [][NextUI]_vars

----------------------------------------------------------------------------
\* Notions the properties below are stated in.

\* the tiles holding a mine
Mines == {c \in Coords : grid[c].mine}

\* the tiles exposed now, and when the last call started
ExposedNow == {c \in Coords : grid[c].exposed}
ExposedBefore == {c \in Coords : pre_grid[c].exposed}

\* the tiles flagged now, and when the last call started
FlaggedNow == {c \in Coords : grid[c].flagged}
FlaggedBefore == {c \in Coords : pre_grid[c].flagged}

\* the in-range 8-neighbours of a coordinate, stated without Board.adjacent
Neighbours8(c) ==
    {d \in Coords : d # c /\ d[1] - c[1] \in -1 .. 1 /\ d[2] - c[2] \in -1 .. 1}

\* the number of mines around a coordinate
MinesAround(c) == Cardinality(Neighbours8(c) \cap Mines)

\* the least set containing S and the neighbours of its zero-count members
RECURSIVE Region(_)
Region(S) ==
    LET S2 == S \cup UNION {Neighbours8(c) : c \in {d \in S : MinesAround(d) = 0}}
    IN IF S2 = S THEN S ELSE Region(S2)

\* every tile is exposed and safe, or a flagged mine
AllSettled ==
    \A c \in Coords : \/ grid[c].exposed /\ ~grid[c].mine
                      \/ grid[c].flagged /\ grid[c].mine

----------------------------------------------------------------------------
\* C1: a constructed board holds exactly nmines mines, whatever the random
\* choice was.
MineCountExact == Cardinality(Mines) = nmines

\* C2: no tile is both exposed and flagged.
NoExposedFlagged == \A c \in Coords : ~(grid[c].exposed /\ grid[c].flagged)

\* C3: the flagged tiles number nflagged, nflagged never exceeds nmines
\* (available_flags stays in 0..nmines), and flag on an unflagged tile with
\* the budget used up changes neither nflagged nor any flagged attribute.
FlagBudget ==
    /\ Cardinality(FlaggedNow) = nflagged
    /\ nflagged <= nmines
    /\ available_flags \in 0 .. nmines
    /\ (op.name = "flag" /\ ~pre_grid[Target].flagged /\ pre_nflagged = nmines)
          => (nflagged = pre_nflagged /\ FlaggedNow = FlaggedBefore)

\* C3 witness: a flag call on an unexposed, unflagged tile after the budget
\* of a board with mines was used up.
FlagBudgetWitness ==
    /\ op.name = "flag"
    /\ nmines > 0
    /\ pre_nflagged = nmines
    /\ ~pre_grid[Target].flagged
    /\ ~pre_grid[Target].exposed

\* C4: a tile exposed when a call starts is exposed when it returns, so
\* total_exposed does not decrease.
MonotonicExposure ==
    /\ ExposedBefore \subseteq ExposedNow
    /\ Cardinality(ExposedBefore) <= total_exposed

\* C4 witness: a flood fill that started on one exposed tile and revisited
\* another one, on a board that holds a flag.
MonotonicExposureWitness ==
    /\ op.name = "expose"
    /\ ~grid[Target].mine
    /\ Target \in ExposedBefore
    /\ \E c \in ExposedBefore \cap ret : c # Target
    /\ FlaggedBefore # {}

\* C5: expose on a flagged tile changes no exposed attribute, keeps the
\* flag and returns the empty set.
ExposeFlaggedIsNoOp ==
    (op.name = "expose" /\ pre_grid[Target].flagged)
        => /\ ExposedNow = ExposedBefore
           /\ grid[Target].flagged
           /\ ret = {}

\* C6: right after expose on a mine, win is False.
MineHitNotWon ==
    (op.name = "expose" /\ grid[Target].mine) => (win_assertion /\ ~win)

\* C7: win is True exactly when every tile is exposed and safe, or a
\* flagged mine.
WinIffAllSettled == (win_assertion /\ win) <=> AllSettled

\* C8: expose on a safe tile returns exactly the tiles it turned from
\* unexposed to exposed; on an already exposed tile that is the empty set.
ExposeReturnsNewlyExposed ==
    (op.name = "expose" /\ ~grid[Target].mine)
        => /\ ret = ExposedNow \ ExposedBefore
           /\ Target \in ExposedBefore => ret = {}

\* C9: flag returns the flagged attribute the tile has after the call.
FlagReturnsNewState == op.name = "flag" => ret = grid[Target].flagged

\* C10: with no flag on the board, expose on a safe tile exposes exactly
\* its region on top of what was exposed, changes nothing outside the
\* region, and stores the count of every numbered tile of the region.
FloodFillRegion ==
    (op.name = "expose" /\ ~grid[Target].mine /\ FlaggedBefore = {})
        => LET R == Region({Target})
           IN /\ ExposedNow = ExposedBefore \cup R
              /\ \A c \in Coords \ R : grid[c] = pre_grid[c]
              /\ \A c \in R : MinesAround(c) > 0
                                 => grid[c].adjacent_mines = MinesAround(c)

\* C10 witness: a flood fill on a board without flags that spread from a
\* zero-count tile to a numbered one and left a tile outside the region.
FloodFillRegionWitness ==
    /\ op.name = "expose"
    /\ ~grid[Target].mine
    /\ FlaggedBefore = {}
    /\ MinesAround(Target) = 0
    /\ \E c \in Region({Target}) : MinesAround(c) > 0 /\ c \notin ExposedBefore
    /\ Coords \ Region({Target}) # {}

----------------------------------------------------------------------------
\* C11: expose and flag on a coordinate outside the board fail with an
\* error and change nothing of the board.
OutOfRangeFails ==
    (op.name \in {"expose", "flag"} /\ Target \notin Coords)
        => /\ raised = "KeyError"
           /\ grid = pre_grid
           /\ nflagged = pre_nflagged

\* C11 witness: a call with a negative row on a board that holds an exposed
\* tile and a flagged one.
OutOfRangeFailsWitness ==
    /\ op.name \in {"expose", "flag"}
    /\ op.i = -1
    /\ raised = "KeyError"
    /\ ExposedNow # {}
    /\ FlaggedNow # {}

\* C12: no board exists that was requested with more mines than tiles and
\* holds another number of mines: the construction is rejected.
TooManyMinesRejected == ~(nmines > ntiles /\ Cardinality(Mines) # nmines)

\* C13: in a game that only flags unflagged mines and exposes safe tiles,
\* every flag call sets the flag, win is True once every mine is flagged
\* and every safe tile exposed, and False while a safe tile is unexposed.
WinAfterFlaggingAndExposing ==
    /\ op.name = "flag" => grid[Target].flagged
    /\ (Mines \subseteq FlaggedNow /\ Coords \ Mines \subseteq ExposedNow)
          => (win_assertion /\ win)
    /\ ~(Coords \ Mines \subseteq ExposedNow) => (win_assertion /\ ~win)

\* C13 witness: a game on a board with a mine, won by a flood fill.
WinAfterFlaggingAndExposingWitness ==
    /\ op.name = "expose"
    /\ Mines # {}
    /\ Mines \subseteq FlaggedNow
    /\ Coords \ Mines \subseteq ExposedNow
    /\ Cardinality(ExposedNow \ ExposedBefore) > 1
    /\ win

\* the least set containing S and the neighbours of its zero-count members
\* that were not flagged when the last call started
RECURSIVE UnflaggedRegion(_)
UnflaggedRegion(S) ==
    LET S2 == S \cup UNION {Neighbours8(c) :
                   c \in {d \in S : MinesAround(d) = 0 /\ ~pre_grid[d].flagged}}
    IN IF S2 = S THEN S ELSE UnflaggedRegion(S2)

\* C14: a flood fill from an unflagged safe tile neither exposes nor
\* returns a flagged tile, and a flagged tile does not spread it: the
\* tiles reached only through flagged tiles keep their exposed attribute.
FlaggedTileStopsFill ==
    (op.name = "expose" /\ ~grid[Target].mine /\ ~pre_grid[Target].flagged)
        => /\ \A c \in FlaggedBefore : ~grid[c].exposed /\ c \notin ret
           /\ \A c \in Coords \ UnflaggedRegion({Target}) :
                  grid[c].exposed = pre_grid[c].exposed

\* C15: expose on an exposed safe tile changes no tile.
ReExposeIsNoOp ==
    (op.name = "expose" /\ pre_grid[Target].exposed /\ ~pre_grid[Target].mine)
        => \A c \in Coords :
              /\ grid[c].exposed = pre_grid[c].exposed
              /\ grid[c].flagged = pre_grid[c].flagged
              /\ grid[c].adjacent_mines = pre_grid[c].adjacent_mines

\* C16: total_exposed plus the number of flagged mines never exceeds
\* ntiles, so win never raises AssertionError.
WinNeverRaises ==
    Cardinality(ExposedNow) + Cardinality(FlaggedNow \cap Mines) <= ntiles

\* C17: expose on a mine changes only that tile's exposed attribute, to
\* True, and returns exactly that coordinate.
MineHitExposesOnlyTarget ==
    (op.name = "expose" /\ pre_grid[Target].mine)
        => /\ grid[Target] = [pre_grid[Target] EXCEPT !.exposed = TRUE]
           /\ \A c \in Coords \ {Target} : grid[c] = pre_grid[c]
           /\ nflagged = pre_nflagged
           /\ ret = {Target}

\* C17 witness: a first expose on a mine of a board with another mine,
\* an unexposed zero-count tile and a flag.
MineHitExposesOnlyTargetWitness ==
    /\ op.name = "expose"
    /\ pre_grid[Target].mine
    /\ ~pre_grid[Target].exposed
    /\ Mines \ {Target} # {}
    /\ \E c \in Coords \ Mines : ~grid[c].exposed
    /\ FlaggedNow # {}

\* C18: expose changes no flagged attribute and not nflagged; flag changes
\* no exposed, mine or adjacent_mines attribute, and the flagged attribute
\* of the targeted tile at most.
ExposeAndFlagFrames ==
    /\ op.name = "expose" => (FlaggedNow = FlaggedBefore /\ nflagged = pre_nflagged)
    /\ op.name = "flag" =>
          \A c \in Coords :
              /\ grid[c].exposed = pre_grid[c].exposed
              /\ grid[c].mine = pre_grid[c].mine
              /\ grid[c].adjacent_mines = pre_grid[c].adjacent_mines
              /\ c # Target => grid[c].flagged = pre_grid[c].flagged

\* C18 witness: an expose that turned a flagged tile into an exposed one.
ExposeAndFlagFramesWitness ==
    /\ op.name = "expose"
    /\ pre_grid[Target].flagged
    /\ ~pre_grid[Target].exposed
    /\ grid[Target].exposed

\* the tiles the flood fill of the last call visited
Visited == ExposeLoop(pre_grid, <<Target>>, {}, {}).seen

\* C19: a flood fill visits, returns and exposes no mine, and a mine
\* becomes exposed only as the target of an expose call.
FloodFillSparesMines ==
    /\ (op.name = "expose" /\ ~grid[Target].mine)
          => (Visited \cap Mines = {} /\ ret \cap Mines = {})
    /\ (ExposedNow \ ExposedBefore) \cap Mines
          \subseteq (IF op.name = "expose" THEN {Target} ELSE {})

\* C19 witness: a flood fill that spread up to a tile next to a mine.
FloodFillSparesMinesWitness ==
    /\ op.name = "expose"
    /\ ~grid[Target].mine
    /\ \E c \in Visited : c # Target /\ MinesAround(c) > 0
    /\ Mines \ ExposedNow # {}

\* C20: once a mine is exposed the game is over as a loss: every tile
\* widget is disabled and the header reads "You lose!", so no handler
\* calls expose or flag on a board that shows a mine.
MineClickEndsGame ==
    /\ Mines \cap ExposedNow # {}
          => (connected = {} /\ info_header.text = "You lose!")
    /\ op.name \in {"expose", "flag"} => Mines \cap ExposedBefore = {}
====
